---------------------------- MODULE Spec2Model ----------------------------
(***************************************************************************)
(* A model of the sparse voxel octree sculpting core of swirlix            *)
(* (src/sbrush/src/sculpt.rs, src/sbrush/src/brush.rs).                    *)
(*                                                                         *)
(* Lengths are dyadic rationals in the code (f32 values that are exact     *)
(* multiples of 1/64); the model stores them as integers counting 1/64ths, *)
(* so the unit cube has side One = 64 and center <<32, 32, 32>>.  All      *)
(* values used by the model are exactly representable in f32 and so are    *)
(* their sums, halves and squares: integer arithmetic is the arithmetic    *)
(* of the code.                                                            *)
(*                                                                         *)
(* Option<Box<SculptNode>> is modelled as a sequence of length 0 (None)    *)
(* or 1 (Some(node)); the array children[0..7] as the 8-tuple whose        *)
(* element index + 1 is children[index].                                   *)
(***************************************************************************)
EXTENDS Integers, Sequences, FiniteSets, TLC

VARIABLES
    root,        \* Sculpt.root
    resolution,  \* Sculpt.resolution
    palette,     \* Sculpt.palette: the materials of SculptPalette, in order
    edits,       \* the number of edits made so far
    last,        \* the last edit: its operation, its closures, the root before it
    consistent,  \* whether every edit so far had container => filler on every cube
    undone,      \* whether the edits so far are subdivide(P); unsubdivide(P)
    calls,       \* the call stack of the edit in progress, innermost call first
    probe,       \* the last evaluation of a brush tip closure: its arguments and value
    current_brush \* Editor.current_brush

vars == <<root, resolution, palette, edits, last, consistent, undone,
          calls, probe, current_brush>>

(* ------------------------------ bounds -------------------------------- *)

\* Largest resolution a sculpt is created with.
MaxRes == 5

\* Longest sequence of edits applied to a sculpt.
MaxEdits == 2

(* ------------------------- program constants -------------------------- *)

\* The side of the root cube, 1.0, in model units.
One == 64

Slots == 0..7

Vec3(x, y, z) == <<x, y, z>>

RootCenter == Vec3(One \div 2, One \div 2, One \div 2)

\* Octant centers with the y and z bits of the slot index exchanged.
OctantCenter_YZSwapped(center, quarter_size, index) ==
    Vec3(center[1] + (IF index % 2 = 1 THEN quarter_size ELSE -quarter_size),
         center[2] + (IF (index \div 4) % 2 = 1 THEN quarter_size ELSE -quarter_size),
         center[3] + (IF (index \div 2) % 2 = 1 THEN quarter_size ELSE -quarter_size))

\* The centers lfb, rfb, lbb, rbb, lft, rft, lbt, rbt of the eight octants.
OctantCenter(center, quarter_size, index) ==
    Vec3(center[1] + (IF index % 2 = 1 THEN quarter_size ELSE -quarter_size),
         center[2] + (IF (index \div 2) % 2 = 1 THEN quarter_size ELSE -quarter_size),
         center[3] + (IF (index \div 4) % 2 = 1 THEN quarter_size ELSE -quarter_size))

(* --------------------------- brush tips ------------------------------- *)

Sq(a) == a * a

\* A filler that leaves out a cube the sphere only touches.
RoundBrushTip_filler_Strict(brush_size, brush_position, size, center) ==
    LET half_size == size \div 2
        low(k) == center[k] - half_size
        high(k) == center[k] + half_size
        sub(k) == IF brush_position[k] < low(k)
                    THEN Sq(brush_position[k] - low(k))
                  ELSE IF brush_position[k] > high(k)
                    THEN Sq(brush_position[k] - high(k))
                  ELSE 0
        dist_squared == Sq(brush_size) - sub(1) - sub(2) - sub(3)
    IN  dist_squared > 0

\* RoundBrushTip::filler: the closure's value on the cube (size, center).
RoundBrushTip_filler(brush_size, brush_position, size, center) ==
    LET half_size == size \div 2
        low(k) == center[k] - half_size
        high(k) == center[k] + half_size
        sub(k) == IF brush_position[k] < low(k)
                    THEN Sq(brush_position[k] - low(k))
                  ELSE IF brush_position[k] > high(k)
                    THEN Sq(brush_position[k] - high(k))
                  ELSE 0
        dist_squared == Sq(brush_size) - sub(1) - sub(2) - sub(3)
    IN  dist_squared >= 0

\* A container that tests the cube against the bounding cube of the sphere
\* instead of the sphere.
RoundBrushTip_container_BoundingCube(brush_size, brush_position, size, center) ==
    \A k \in 1..3 :
        /\ brush_position[k] - brush_size <= center[k] - size \div 2
        /\ center[k] + size \div 2 <= brush_position[k] + brush_size

\* A container that accepts a cube whose farthest corner is on the sphere.
RoundBrushTip_container_OnSphere(brush_size, brush_position, size, center) ==
    LET half_size == size \div 2
        low(k) == center[k] - half_size
        high(k) == center[k] + half_size
        sub(k) == IF brush_position[k] > center[k]
                    THEN Sq(brush_position[k] - low(k))
                    ELSE Sq(brush_position[k] - high(k))
        dist_squared == Sq(brush_size) - sub(1) - sub(2) - sub(3)
    IN  dist_squared >= 0

\* RoundBrushTip::container: the closure's value on the cube (size, center).
RoundBrushTip_container(brush_size, brush_position, size, center) ==
    LET half_size == size \div 2
        low(k) == center[k] - half_size
        high(k) == center[k] + half_size
        sub(k) == IF brush_position[k] > center[k]
                    THEN Sq(brush_position[k] - low(k))
                    ELSE Sq(brush_position[k] - high(k))
        dist_squared == Sq(brush_size) - sub(1) - sub(2) - sub(3)
    IN  dist_squared > 0

\* SquareBrushTip::filler: the closure's value on the cube (size, center).
SquareBrushTip_filler(brush_size, brush_position, size, center) ==
    LET half_size == size \div 2
        low(k) == center[k] - half_size
        high(k) == center[k] + half_size
        in_range(k) ==
            \/ (brush_position[k] - brush_size < low(k)
                    /\ brush_position[k] + brush_size > low(k))
            \/ (brush_position[k] - brush_size < high(k)
                    /\ brush_position[k] + brush_size > high(k))
            \/ (brush_position[k] - brush_size > low(k)
                    /\ brush_position[k] + brush_size < high(k))
    IN  in_range(1) /\ in_range(2) /\ in_range(3)

\* A container that accepts a cube whose faces lie on the faces of the brush.
SquareBrushTip_container_Closed(brush_size, brush_position, size, center) ==
    LET half_size == size \div 2
        low(k) == center[k] - half_size
        high(k) == center[k] + half_size
        in_range(k) ==
            /\ brush_position[k] - brush_size <= low(k)
            /\ brush_position[k] + brush_size >= high(k)
    IN  in_range(1) /\ in_range(2) /\ in_range(3)

\* SquareBrushTip::container: the closure's value on the cube (size, center).
SquareBrushTip_container(brush_size, brush_position, size, center) ==
    LET half_size == size \div 2
        low(k) == center[k] - half_size
        high(k) == center[k] + half_size
        in_range(k) ==
            /\ (brush_position[k] - brush_size < low(k)
                    /\ brush_position[k] + brush_size > low(k))
            /\ (brush_position[k] - brush_size < high(k)
                    /\ brush_position[k] + brush_size > high(k))
    IN  in_range(1) /\ in_range(2) /\ in_range(3)

(***************************************************************************)
(* Sculpt::subdivide and Sculpt::unsubdivide take any pair of closures.    *)
(* Besides the two built-in tips the model supplies "octant" closures,     *)
(* which answer by the position of the cube in its parent: on the root     *)
(* cube they return froot / croot, on any other cube they return whether   *)
(* the cube's slot index is in fmask / cmask.                              *)
(***************************************************************************)
OctantOf(size, center) ==
    LET bit(k) == (center[k] \div size) % 2
    IN  bit(1) + 2 * bit(2) + 4 * bit(3)

\* The is_filled closure of predicate pair P on the cube (size, center).
is_filled(P, size, center) ==
    CASE P.tip = "round" -> RoundBrushTip_filler(P.size, P.pos, size, center)
      [] P.tip = "square" -> SquareBrushTip_filler(P.size, P.pos, size, center)
      [] P.tip = "octant" -> IF size = One THEN P.froot
                               ELSE OctantOf(size, center) \in P.fmask

\* The is_contained closure of predicate pair P on the cube (size, center).
is_contained(P, size, center) ==
    CASE P.tip = "round" -> RoundBrushTip_container(P.size, P.pos, size, center)
      [] P.tip = "square" -> SquareBrushTip_container(P.size, P.pos, size, center)
      [] P.tip = "octant" -> IF size = One THEN P.croot
                               ELSE OctantOf(size, center) \in P.cmask

\* Brush sizes and positions the edits are drawn from (1/64ths).
BrushSizes == {4, 32}
BrushPositions == {Vec3(32, 32, 32), Vec3(20, 20, 32)}

TipPreds ==
    {[tip |-> t, size |-> s, pos |-> p] :
        t \in {"round", "square"}, s \in BrushSizes, p \in BrushPositions}

\* The <<fmask, cmask>> pairs of the octant closures: the first is consistent
\* (container => filler), the second is not.
OctantMasks == {<<{0}, {}>>, <<{1, 2, 3, 4, 5, 6, 7}, {0}>>}

OctantPreds ==
    {[tip |-> "octant", froot |-> TRUE, croot |-> c, fmask |-> m[1], cmask |-> m[2]] :
        c \in BOOLEAN, m \in OctantMasks}

Preds == TipPreds \cup OctantPreds

\* container => filler on the root cube and on every cube of the first
\* three levels below it.
RECURSIVE ConsistentBelow(_, _, _, _)
ConsistentBelow(P, size, center, depth) ==
    /\ is_contained(P, size, center) => is_filled(P, size, center)
    /\ depth > 0 =>
         \A i \in Slots :
            ConsistentBelow(P, size \div 2, OctantCenter(center, size \div 4, i),
                            depth - 1)

Consistent(P) == ConsistentBelow(P, One, RootCenter, 3)

\* The closures of Preds with container => filler on each of these cubes.
ConsistentPreds == {P \in Preds : Consistent(P)}

(* ------------------------------ nodes --------------------------------- *)

\* The array [F(0), ..., F(7)].
Eight(F(_)) == <<F(0), F(1), F(2), F(3), F(4), F(5), F(6), F(7)>>

NoChildren == <<<<>>, <<>>, <<>>, <<>>, <<>>, <<>>, <<>>, <<>>>>

\* children[index]
Child(children, index) == children[index + 1]

\* SculptNode::new
SculptNode_new(kind, material, size, center) ==
    [kind |-> kind, children |-> NoChildren, center |-> center, size |-> size,
     material |-> material, child_count |-> 0]

is_some(c) == c # <<>>

AnyChild(n) == \E i \in Slots : is_some(Child(n.children, i))

\* MakeLeaf without the reset of the children array.
MakeLeaf_KeepsChildren(n) == [n EXCEPT !.kind = "Leaf"]

\* The two places where subdivide turns a node into a Leaf: the children
\* are dropped and the kind is set.
MakeLeaf(n) == [n EXCEPT !.children = NoChildren, !.kind = "Leaf"]

\* A resolution test with < in place of <=.
AtMinLeafSize_Strict(size, res) == size * res < One

\* Sculpt::min_leaf_size is 1.0 / resolution; size <= min_leaf_size.
AtMinLeafSize(size, res) == size * res <= One

(* ------------------------------ edits --------------------------------- *)

RECURSIVE SculptNode_subdivide(_, _, _, _, _)
RECURSIVE SculptNode_unsubdivide(_, _, _, _)
RECURSIVE SculptNode_set_child_count(_)

\* Allocations that do not ask the filler: every absent slot gets a child.
CreateChild_Unconditional(n, fill, P, invert, index) ==
    IF ~is_some(Child(n.children, index))
      THEN <<SculptNode_new("None", fill, n.size \div 2,
                            OctantCenter(n.center, n.size \div 4, index))>>
      ELSE Child(n.children, index)

\* Allocations that ask the container in place of the filler.
CreateChild_AsksContainer(n, fill, P, invert, index) ==
    LET half_size == n.size \div 2
        quarter_size == n.size \div 4
        c == OctantCenter(n.center, quarter_size, index)
    IN  IF (is_contained(P, half_size, c) = ~invert) /\ ~is_some(Child(n.children, index))
          THEN <<SculptNode_new("None", fill, half_size, c)>>
          ELSE Child(n.children, index)

\* Allocations that do not look at the slot: a filled slot gets a new child
\* even when it holds one.
CreateChild_Overwrites(n, fill, P, invert, index) ==
    LET half_size == n.size \div 2
        quarter_size == n.size \div 4
        c == OctantCenter(n.center, quarter_size, index)
    IN  IF is_filled(P, half_size, c) = ~invert
          THEN <<SculptNode_new("None", fill, half_size, c)>>
          ELSE Child(n.children, index)

\* The eight conditional allocations of subdivide: slot index of node n after them.
CreateChild(n, fill, P, invert, index) ==
    LET half_size == n.size \div 2
        quarter_size == n.size \div 4
        c == OctantCenter(n.center, quarter_size, index)
    IN  IF (is_filled(P, half_size, c) = ~invert) /\ ~is_some(Child(n.children, index))
          THEN <<SculptNode_new("None", fill, half_size, c)>>
          ELSE Child(n.children, index)

\* An end of subdivide that never merges: a node with children becomes
\* Interior even when all eight are Leaves.
MergeUp_NoMerge(n, children) ==
    IF \E i \in Slots : is_some(Child(children, i))
      THEN [n EXCEPT !.children = children, !.kind = "Interior"]
      ELSE [n EXCEPT !.children = children]

\* The end of subdivide: the merge of eight Leaf children, or the kind the
\* node takes from having children.
MergeUp(n, children) ==
    LET all_leaves == \A i \in Slots :
                         is_some(Child(children, i)) /\ Child(children, i)[1].kind = "Leaf"
    IN  IF all_leaves
          THEN MakeLeaf(n)
        ELSE IF \E i \in Slots : is_some(Child(children, i))
          THEN [n EXCEPT !.children = children, !.kind = "Interior"]
        ELSE [n EXCEPT !.children = children]

\* A subdivide without the early return on a Leaf: an additive edit
\* re-traverses solid leaves.
SculptNode_subdivide_RefinesLeaves(n, fill, P, res, invert) ==
    IF AtMinLeafSize(n.size, res) \/ (is_contained(P, n.size, n.center) = ~invert)
      THEN MakeLeaf(n)
    ELSE LET created == Eight(LAMBDA i : CreateChild(n, fill, P, invert, i))
             recursed == Eight(LAMBDA i :
                 IF is_some(Child(created, i))
                   THEN <<SculptNode_subdivide(Child(created, i)[1], fill, P, res, invert)>>
                   ELSE <<>>)
         IN  MergeUp(n, recursed)

\* SculptNode::subdivide
SculptNode_subdivide(n, fill, P, res, invert) ==
    IF ~invert /\ n.kind = "Leaf"
      THEN n
    ELSE IF AtMinLeafSize(n.size, res) \/ (is_contained(P, n.size, n.center) = ~invert)
      THEN MakeLeaf(n)
    ELSE LET created == Eight(LAMBDA i : CreateChild(n, fill, P, invert, i))
             recursed == Eight(LAMBDA i :
                 IF is_some(Child(created, i))
                   THEN <<SculptNode_subdivide(Child(created, i)[1], fill, P, res, invert)>>
                   ELSE <<>>)
         IN  MergeUp(n, recursed)

\* The loop of unsubdivide over the child slots: slot index after it.
UnsubdivideChild(n, fill, P, res, index) ==
    IF is_some(Child(n.children, index))
      THEN LET child == SculptNode_unsubdivide(Child(n.children, index)[1], fill, P, res)
               should_remove == (child.kind = "None")
                                   \/ is_contained(P, child.size, child.center)
           IN  IF should_remove THEN <<>> ELSE <<child>>
      ELSE <<>>

\* An end of unsubdivide that leaves a node without children as it is.
ErodeLeaf_Keeps(n, fill, P, res) == n

\* The end of unsubdivide, reached by a node without children: the inverted
\* subdivide and the kind the node takes from it.
ErodeLeaf(n, fill, P, res) ==
    LET s == SculptNode_subdivide(n, fill, P, res, TRUE)
    IN  IF ~AnyChild(s) THEN [s EXCEPT !.kind = "None"]
                        ELSE [s EXCEPT !.kind = "Interior"]

\* SculptNode::unsubdivide
SculptNode_unsubdivide(n, fill, P, res) ==
    IF ~is_filled(P, n.size, n.center)
      THEN n
    ELSE LET kept == Eight(LAMBDA i : UnsubdivideChild(n, fill, P, res, i))
             removed_all == AnyChild(n) /\ \A i \in Slots : ~is_some(Child(kept, i))
             m == [n EXCEPT !.children = kept]
         IN  IF removed_all
               THEN [m EXCEPT !.kind = "None"]
             ELSE IF AnyChild(m)
               THEN [m EXCEPT !.kind = "Interior"]
             ELSE ErodeLeaf(m, fill, P, res)

Sum8(f) == f[1] + f[2] + f[3] + f[4] + f[5] + f[6] + f[7] + f[8]

\* set_child_count without the reset of self.child_count to 0.
SculptNode_set_child_count_NoReset(n) ==
    LET counted == Eight(LAMBDA i :
            IF is_some(Child(n.children, i))
              THEN <<SculptNode_set_child_count(Child(n.children, i)[1])>>
              ELSE <<>>)
        weight == Eight(LAMBDA i :
            IF is_some(Child(counted, i))
              THEN (IF Child(counted, i)[1].kind = "Interior" THEN 2 ELSE 1)
                       + Child(counted, i)[1].child_count
              ELSE 0)
    IN  [n EXCEPT !.children = counted, !.child_count = n.child_count + Sum8(weight)]

\* SculptNode::set_child_count
SculptNode_set_child_count(n) ==
    LET counted == Eight(LAMBDA i :
            IF is_some(Child(n.children, i))
              THEN <<SculptNode_set_child_count(Child(n.children, i)[1])>>
              ELSE <<>>)
        weight == Eight(LAMBDA i :
            IF is_some(Child(counted, i))
              THEN (IF Child(counted, i)[1].kind = "Interior" THEN 2 ELSE 1)
                       + Child(counted, i)[1].child_count
              ELSE 0)
    IN  [n EXCEPT !.children = counted, !.child_count = Sum8(weight)]

\* Sculpt::subdivide
Sculpt_subdivide(r, P, res) ==
    SculptNode_set_child_count(SculptNode_subdivide(r, 0, P, res, FALSE))

\* Sculpt::unsubdivide without the refresh of the child counts.
Sculpt_unsubdivide_NoRefresh(r, P, res) == SculptNode_unsubdivide(r, 0, P, res)

\* Sculpt::unsubdivide
Sculpt_unsubdivide(r, P, res) ==
    SculptNode_set_child_count(SculptNode_unsubdivide(r, 0, P, res))

(* ---------------------------- serializer ------------------------------ *)

RECURSIVE SculptNode_append_to_buffer(_, _)

Pow2(index) == 2 ^ index

Cat8(t) == t[1] \o t[2] \o t[3] \o t[4] \o t[5] \o t[6] \o t[7] \o t[8]

\* A to_u32 that packs the two masks the other way round: the leaf mask in
\* bits 8-15 and the child mask in bits 0-7.
SculptNode_to_u32_MasksSwapped(n) ==
    LET child_mask == Sum8(Eight(LAMBDA i :
            IF is_some(Child(n.children, i)) THEN Pow2(i) ELSE 0))
        leaf_mask == Sum8(Eight(LAMBDA i :
            IF is_some(Child(n.children, i)) /\ Child(n.children, i)[1].kind = "Leaf"
              THEN Pow2(i) ELSE 0))
    IN  IF \A i \in Slots : ~is_some(Child(n.children, i))
          THEN n.material
          ELSE leaf_mask * 256 + child_mask

\* SculptNode::to_u32 (its values stay below 2^16, far from the u32 limit)
SculptNode_to_u32(n) ==
    LET child_mask == Sum8(Eight(LAMBDA i :
            IF is_some(Child(n.children, i)) THEN Pow2(i) ELSE 0))
        leaf_mask == Sum8(Eight(LAMBDA i :
            IF is_some(Child(n.children, i)) /\ Child(n.children, i)[1].kind = "Leaf"
              THEN Pow2(i) ELSE 0))
        child_count == Cardinality({i \in Slots : is_some(Child(n.children, i))})
    IN  IF child_count = 0
          THEN n.material
          ELSE child_mask * 256 + leaf_mask

\* A first loop that reserves two words for every present child, Leaf
\* children included.
PointerPastHeaders_TwoWordsEach(n, pointer) ==
    pointer + Sum8(Eight(LAMBDA i :
        IF is_some(Child(n.children, i)) THEN 2 ELSE 0))

\* The first loop of append_to_buffer: the pointer moved past the headers
\* of the children of n.
PointerPastHeaders(n, pointer) ==
    pointer + Sum8(Eight(LAMBDA i :
        IF is_some(Child(n.children, i))
          THEN (IF Child(n.children, i)[1].kind = "Interior" THEN 2 ELSE 1)
          ELSE 0))

\* The sum of child.child_count over the present children of n in the
\* slots below index: what the running pointers of the second and third
\* loops of append_to_buffer have been advanced by when they reach index.
RECURSIVE CountsBelow(_, _)
CountsBelow(n, index) ==
    IF index = 0 THEN 0
    ELSE CountsBelow(n, index - 1)
           + (IF is_some(Child(n.children, index - 1))
                THEN Child(n.children, index - 1)[1].child_count ELSE 0)

\* A second loop that advances the running pointer by the child's
\* child_count before it pushes the pointer instead of after.
PushHeader_AdvanceFirst(n, index, pointer) ==
    IF is_some(Child(n.children, index))
      THEN LET child == Child(n.children, index)[1]
               first_child_pointer == pointer + CountsBelow(n, index + 1)
           IN  IF child.kind = "Interior"
                 THEN <<SculptNode_to_u32(child), first_child_pointer>>
                 ELSE <<SculptNode_to_u32(child)>>
      ELSE <<>>

\* The second loop of append_to_buffer: the words it pushes for slot index.
PushHeader(n, index, pointer) ==
    IF is_some(Child(n.children, index))
      THEN LET child == Child(n.children, index)[1]
               first_child_pointer == pointer + CountsBelow(n, index)
           IN  IF child.kind = "Interior"
                 THEN <<SculptNode_to_u32(child), first_child_pointer>>
                 ELSE <<SculptNode_to_u32(child)>>
      ELSE <<>>

\* The third loop of append_to_buffer: the words the recursive call pushes
\* for slot index.
AppendChild(n, index, pointer) ==
    IF is_some(Child(n.children, index))
      THEN LET second_child_pointer == pointer + CountsBelow(n, index)
           IN  SculptNode_append_to_buffer(Child(n.children, index)[1],
                                           second_child_pointer)
      ELSE <<>>

\* SculptNode::append_to_buffer: the words it pushes onto the buffer, in order.
SculptNode_append_to_buffer(n, pointer0) ==
    LET pointer == PointerPastHeaders(n, pointer0)
    IN  Cat8(Eight(LAMBDA i : PushHeader(n, i, pointer)))
            \o Cat8(Eight(LAMBDA i : AppendChild(n, i, pointer)))

\* SculptNode::to_buffer
SculptNode_to_buffer(n) ==
    <<SculptNode_to_u32(n), 2>> \o SculptNode_append_to_buffer(n, 2)

\* Sculpt::get_voxel_buffer
Sculpt_get_voxel_buffer == SculptNode_to_buffer(root)

(* ------------------------------ palette ------------------------------- *)

\* Material::default.  The f32 fields are decimal fractions with one digit;
\* the model stores them in tenths: color [0.8, 0.8, 0.8, 1.0], roughness
\* 0.5, metallic 0.0.
Material_default ==
    [index |-> 0, color |-> <<8, 8, 8, 10>>, roughness |-> 5, metallic |-> 0]

\* A to_buffer that pushes metallic before roughness.
Material_to_buffer_MetallicFirst(m) ==
    <<m.color[1], m.color[2], m.color[3], m.color[4], m.metallic, m.roughness>>

\* Material::to_buffer
Material_to_buffer(m) ==
    <<m.color[1], m.color[2], m.color[3], m.color[4], m.roughness, m.metallic>>

\* SculptPalette::new
SculptPalette_new == <<Material_default>>

\* SculptPalette::to_buffer
RECURSIVE SculptPalette_to_buffer(_)
SculptPalette_to_buffer(materials) ==
    IF materials = <<>> THEN <<>>
    ELSE Material_to_buffer(Head(materials)) \o SculptPalette_to_buffer(Tail(materials))

\* Sculpt::get_material_buffer
Sculpt_get_material_buffer == SculptPalette_to_buffer(palette)

(* --------------------------- state machine ---------------------------- *)

NoPred == [tip |-> "none"]

\* No closure has been evaluated on its own yet.
NoProbe == [fn |-> "none"]

\* Sculpt::new
Init ==
    /\ resolution \in 1..MaxRes
    /\ palette = SculptPalette_new
    /\ root = SculptNode_new("None", 0, One, RootCenter)
    /\ edits = 0
    /\ last = [op |-> "new", pred |-> NoPred, before |-> root]
    /\ consistent = TRUE
    /\ undone = FALSE
    /\ calls = <<>>
    /\ probe = NoProbe
    /\ current_brush = 0

Subdivide ==
    \E P \in Preds :
        /\ edits < MaxEdits
        /\ root' = Sculpt_subdivide(root, P, resolution)
        /\ last' = [op |-> "subdivide", pred |-> P, before |-> root]
        /\ consistent' = (consistent /\ P \in ConsistentPreds)
        /\ undone' = FALSE
        /\ edits' = edits + 1
        /\ UNCHANGED <<resolution, palette, calls, probe, current_brush>>

Unsubdivide ==
    \E P \in Preds :
        /\ edits < MaxEdits
        /\ root' = Sculpt_unsubdivide(root, P, resolution)
        /\ last' = [op |-> "unsubdivide", pred |-> P, before |-> root]
        /\ consistent' = (consistent /\ P \in ConsistentPreds)
        /\ undone' = (edits = 1 /\ last.op = "subdivide" /\ last.pred = P)
        /\ edits' = edits + 1
        /\ UNCHANGED <<resolution, palette, calls, probe, current_brush>>

Next == Subdivide \/ Unsubdivide

Spec == Init /\ [][Next]_vars

(***************************************************************************)
(* One stroke of a built-in tip on a new sculpt: Draw::add of the round    *)
(* or the cube tip (brush.rs), which calls Sculpt::subdivide with the      *)
(* tip's closures for the brush at (x, y, 0.5).  The resolutions include   *)
(* the 32 of the repository's tests.                                       *)
(***************************************************************************)
StrokeResolutions == {1, 2, 3, 5, 8, 32}
StrokeSizes == {8, 32}
StrokePositions == {Vec3(32, 32, 32), Vec3(20, 20, 32), Vec3(16, 48, 32),
                    Vec3(48, 24, 32), Vec3(0, 32, 32)}

StrokePreds ==
    {[tip |-> t, size |-> s, pos |-> p] :
        t \in {"round", "square"}, s \in StrokeSizes, p \in StrokePositions}

\* Sculpt::new
InitStroke ==
    /\ resolution \in StrokeResolutions
    /\ palette = SculptPalette_new
    /\ root = SculptNode_new("None", 0, One, RootCenter)
    /\ edits = 0
    /\ last = [op |-> "new", pred |-> NoPred, before |-> root]
    /\ consistent = TRUE
    /\ undone = FALSE
    /\ calls = <<>>
    /\ probe = NoProbe
    /\ current_brush = 0

\* Draw::add on the new sculpt
AddStroke ==
    \E P \in StrokePreds :
        /\ edits = 0
        /\ root' = Sculpt_subdivide(root, P, resolution)
        /\ last' = [op |-> "subdivide", pred |-> P, before |-> root]
        /\ consistent' = (consistent /\ Consistent(P))
        /\ undone' = FALSE
        /\ edits' = edits + 1
        /\ UNCHANGED <<resolution, palette, calls, probe, current_brush>>

SpecStroke == InitStroke /\ [][AddStroke]_vars

(* ----------------------- reading trees and buffers -------------------- *)

Has(n, i) == is_some(Child(n.children, i))

Present(n) == {i \in Slots : Has(n, i)}

ChildNode(n, i) == Child(n.children, i)[1]

\* Every node of the tree under n, n included.
RECURSIVE NodesOf(_)
NodesOf(n) == {n} \cup UNION {NodesOf(ChildNode(n, i)) : i \in Present(n)}

\* The word at 0-based index idx of buffer buf, or -1 outside of it.
Word(buf, idx) == IF idx + 1 \in DOMAIN buf THEN buf[idx + 1] ELSE -1

BitSet(word, k) == (word \div Pow2(k)) % 2 = 1

\* The number of header words of a node: two for an Interior, else one.
HeaderLen(n) == IF n.kind = "Interior" THEN 2 ELSE 1

\* Where a reader of the buffer finds the header of child i of the Interior
\* node whose header is at index h: at Word B, after the headers of the
\* present children in lower slots.
RECURSIVE Widths(_, _)
Widths(n, i) ==
    IF i = 0 THEN 0
    ELSE Widths(n, i - 1)
           + (IF Has(n, i - 1) THEN HeaderLen(ChildNode(n, i - 1)) ELSE 0)

ChildHeaderAt(n, h, buf, i) == Word(buf, h + 1) + Widths(n, i)

\* The buffer indices of the header words of the nodes a reader reaches from
\* the header at index h of node n, following Word B through Interior nodes;
\* the root's header is the two words to_buffer pushes first, whatever its
\* kind.
RECURSIVE HeaderIndices(_, _, _)
HeaderIndices(n, h, buf) ==
    (IF h = 0 \/ n.kind = "Interior" THEN {h, h + 1} ELSE {h}) \cup
    (IF n.kind = "Interior"
       THEN UNION {HeaderIndices(ChildNode(n, i), ChildHeaderAt(n, h, buf, i), buf) :
                      i \in Present(n)}
       ELSE {})

\* The number of header words of the tree under n, the header of n excluded.
RECURSIVE WordsBelow(_)
WordsBelow(n) ==
    Sum8(Eight(LAMBDA i :
        IF Has(n, i)
          THEN HeaderLen(ChildNode(n, i)) + WordsBelow(ChildNode(n, i))
          ELSE 0))

(* ------------------------------ claims -------------------------------- *)

\* C1: after any sequence of subdivide and unsubdivide calls on a new sculpt,
\* every Interior node has at least one present child slot and every Leaf
\* node has all eight child slots absent.
RECURSIVE C1_Below(_)
C1_Below(n) ==
    /\ n.kind = "Interior" => Present(n) # {}
    /\ n.kind = "Leaf" => Present(n) = {}
    /\ \A i \in Present(n) : C1_Below(ChildNode(n, i))

C1_InteriorHasChildLeafHasNone == C1_Below(root)

\* A tree produced by an edit that holds an Interior node and a Leaf node.
C1_Witness ==
    /\ edits > 0
    /\ \E n \in NodesOf(root) : n.kind = "Interior"
    /\ \E n \in NodesOf(root) : n.kind = "Leaf"

\* C4: after every Sculpt::subdivide or Sculpt::unsubdivide call, child_count
\* at every node is the sum over its present children of 2 for an Interior
\* child and 1 for any other, plus that child's own child_count.
RECURSIVE C4_Below(_)
C4_Below(n) ==
    /\ n.child_count =
          Widths(n, 8) + Sum8(Eight(LAMBDA i :
              IF Has(n, i) THEN ChildNode(n, i).child_count ELSE 0))
    /\ \A i \in Present(n) : C4_Below(ChildNode(n, i))

C4_ChildCountSumRule == edits > 0 => C4_Below(root)

\* An unsubdivide left a tree whose root counts an Interior child with
\* children of its own.
C4_Witness ==
    /\ last.op = "unsubdivide"
    /\ \E i \in Present(root) :
          /\ ChildNode(root, i).kind = "Interior"
          /\ ChildNode(root, i).child_count > 0
          /\ root.child_count > 2 + ChildNode(root, i).child_count
\* C2: after edits whose closures all satisfy container => filler, every
\* Interior node has a child of kind Leaf or Interior.
C2_InteriorHasLeafOrInteriorChild ==
    consistent =>
        \A n \in NodesOf(root) :
            n.kind = "Interior" =>
                \E i \in Present(n) : ChildNode(n, i).kind \in {"Leaf", "Interior"}

\* The nodes of the tree under n on which the recursion of unsubdivide with
\* closures P is called: n, and the descendants of n whose ancestors down
\* from n all have filler true.
RECURSIVE VisitedByUnsubdivide(_, _)
VisitedByUnsubdivide(n, P) ==
    {n} \cup
    (IF is_filled(P, n.size, n.center)
       THEN UNION {VisitedByUnsubdivide(ChildNode(n, i), P) : i \in Present(n)}
       ELSE {})

\* The nodes of the tree under n that occupy the cube (size, center).
NodesAt(n, size, center) ==
    {a \in NodesOf(n) : a.size = size /\ a.center = center}

\* C3: when unsubdivide reaches a Leaf larger than min_leaf_size that the
\* brush intersects but does not contain, the Leaf becomes an Interior node
\* whose children are the octants the brush does not fill.
C3_PartlyCoveredLeafBecomesInterior ==
    last.op = "unsubdivide" =>
        \A b \in VisitedByUnsubdivide(last.before, last.pred) :
            (/\ b.kind = "Leaf"
             /\ ~AtMinLeafSize(b.size, resolution)
             /\ is_filled(last.pred, b.size, b.center)
             /\ ~is_contained(last.pred, b.size, b.center))
            => \E a \in NodesAt(root, b.size, b.center) :
                  /\ a.kind = "Interior"
                  /\ \A i \in Slots :
                        i \in Present(a) <=>
                            ~is_filled(last.pred, b.size \div 2,
                                       OctantCenter(b.center, b.size \div 4, i))

\* C5: on a new sculpt, subdivide(P) followed by unsubdivide(P) leaves the
\* root with kind None and no children.
C5_AddThenRemoveLeavesEmptyRoot ==
    undone => (root.kind = "None" /\ Present(root) = {})

\* C6: subdivide(P) applied to the tree subdivide(P) has just produced
\* changes neither the tree nor its voxel buffer.
C6_SubdivideIdempotent ==
    last.op = "subdivide" =>
        LET again == Sculpt_subdivide(root, last.pred, resolution)
        IN  /\ again = root
            /\ SculptNode_to_buffer(again) = Sculpt_get_voxel_buffer

\* The second of two edits was a subdivide that changed a tree with nodes
\* of all three kinds in it.
C6_Witness ==
    /\ edits = 2
    /\ last.op = "subdivide"
    /\ root # last.before
    /\ \E n \in NodesOf(root) : n.kind = "Interior" /\ n.size < One
    /\ \E n \in NodesOf(root) : n.kind = "Leaf"
\* C7: in the voxel buffer the first header word of every Interior node is
\* (child_mask << 8) | leaf_mask, bit i of child_mask set iff slot i is
\* present and bit i of leaf_mask set iff slot i is present and a Leaf; a
\* Leaf is emitted as the word of its material index.
RECURSIVE C7_Below(_, _, _)
C7_Below(buf, n, h) ==
    LET w == Word(buf, h)
    IN  /\ n.kind = "Interior" =>
              /\ 0 <= w /\ w < Pow2(16)
              /\ \A i \in Slots :
                    /\ BitSet(w, 8 + i) <=> Has(n, i)
                    /\ BitSet(w, i) <=>
                          (Has(n, i) /\ ChildNode(n, i).kind = "Leaf")
              /\ \A i \in Present(n) :
                    C7_Below(buf, ChildNode(n, i), ChildHeaderAt(n, h, buf, i))
        /\ n.kind = "Leaf" => w = n.material

C7_HeaderWordsEncodeMasks == C7_Below(Sculpt_get_voxel_buffer, root, 0)

\* The root is Interior with an absent slot, a Leaf child and an Interior
\* child that itself has a Leaf child and a child that is no Leaf.
C7_Witness ==
    /\ root.kind = "Interior"
    /\ Present(root) # Slots
    /\ \E i \in Present(root) : ChildNode(root, i).kind = "Leaf"
    /\ \E i \in Present(root) :
          /\ ChildNode(root, i).kind = "Interior"
          /\ \E j \in Present(ChildNode(root, i)) :
                ChildNode(ChildNode(root, i), j).kind = "Leaf"
          /\ \E j \in Present(ChildNode(root, i)) :
                ChildNode(ChildNode(root, i), j).kind # "Leaf"

\* C8: Word B of every Interior node of the voxel buffer, the root included,
\* is an index smaller than the length of the buffer.
RECURSIVE C8_Below(_, _, _)
C8_Below(buf, n, h) ==
    n.kind = "Interior" =>
        /\ 0 <= Word(buf, h + 1)
        /\ Word(buf, h + 1) < Len(buf)
        /\ \A i \in Present(n) :
              C8_Below(buf, ChildNode(n, i), ChildHeaderAt(n, h, buf, i))

C8_WordBInsideBuffer == C8_Below(Sculpt_get_voxel_buffer, root, 0)

\* The root has two Interior children, so that the Word B of the second one
\* lies past the descendants of the first.
C8_Witness ==
    /\ edits > 0
    /\ \E i, j \in Present(root) :
          /\ i < j
          /\ ChildNode(root, i).kind = "Interior"
          /\ ChildNode(root, j).kind = "Interior"

\* C9: the words starting at the Word B of an Interior node are the headers
\* of its present children, contiguous and in slot order, one word per
\* non-Interior child and two per Interior child; and these spans leave no
\* gap: every word of the buffer is a header word of exactly one node.
RECURSIVE C9_Below(_, _, _)
C9_Below(buf, n, h) ==
    n.kind = "Interior" =>
        \A i \in Present(n) :
            LET at == ChildHeaderAt(n, h, buf, i)
                child == ChildNode(n, i)
            IN  /\ Word(buf, at) = SculptNode_to_u32(child)
                /\ child.kind = "Interior" =>
                      Word(buf, at + 1) =
                          Word(buf, h + 1) + Widths(n, 8) + CountsBelow(n, i)
                /\ C9_Below(buf, child, at)

C9_ChildrenHeadersContiguous ==
    LET buf == Sculpt_get_voxel_buffer
    IN  /\ C9_Below(buf, root, 0)
        /\ HeaderIndices(root, 0, buf) = 0 .. (Len(buf) - 1)
        /\ Len(buf) = 2 + WordsBelow(root)

\* The root has two Interior children with Leaf children of their own, the
\* Word B of the second lying past the descendants of the first.
C9_Witness ==
    \E i, j \in Present(root) :
        /\ i < j
        /\ ChildNode(root, i).kind = "Interior"
        /\ ChildNode(root, j).kind = "Interior"
        /\ ChildNode(root, i).child_count > 1
        /\ LET buf == Sculpt_get_voxel_buffer
               hi == ChildHeaderAt(root, 0, buf, i)
               hj == ChildHeaderAt(root, 0, buf, j)
           IN  Word(buf, hj + 1) >= Word(buf, hi + 1) + ChildNode(root, i).child_count

\* The kinds, child slots and materials of the tree under n.
RECURSIVE Structure(_)
Structure(n) ==
    [kind |-> n.kind, material |-> n.material,
     children |-> Eight(LAMBDA i :
        IF i \in Present(n) THEN <<Structure(ChildNode(n, i))>> ELSE <<>>)]

\* C10: two trees that differ in a kind, a child slot or a material never
\* have the same voxel buffer (here: the tree before and the tree after an
\* edit), so that the buffer can be decoded back into the tree.
C10_DifferentTreesDifferentBuffers ==
    Structure(root) # Structure(last.before) =>
        Sculpt_get_voxel_buffer # SculptNode_to_buffer(last.before)

(* ------------------------- reading the buffer back -------------------- *)

\* The deepest header pair a reader follows: no tree of the model is deeper.
MaxDecodeDepth == 6

\* What a read past the end of the buffer may yield: the reader does not
\* control it.  0 reads as a header without children, 257 as a header with
\* a Leaf child in slot 0.
OutOfBufferWords == {0, 257}

\* The word a reader gets at index idx; oob is what a read past the end of
\* the buffer yields.
ReadWord(buf, idx, oob) == IF idx + 1 \in DOMAIN buf THEN buf[idx + 1] ELSE oob

\* The number of header words a reader skips before the header of slot
\* index: one word for each lower slot in both masks, two for each lower
\* slot in the child mask only.
RECURSIVE DecodedWidths(_, _)
DecodedWidths(a, index) ==
    IF index = 0 THEN 0
    ELSE DecodedWidths(a, index - 1)
           + (IF ~BitSet(a, 8 + index - 1) THEN 0
              ELSE IF BitSet(a, index - 1) THEN 1 ELSE 2)

\* The tree a reader rebuilds from the header at index h: a Leaf when the
\* parent's leaf_mask says so, else the header pair <<Word A, Word B>> whose
\* children's headers start at Word B.
RECURSIVE Decode(_, _, _, _, _, _, _)
Decode(buf, oob, h, leaf, size, center, depth) ==
    IF leaf
      THEN SculptNode_new("Leaf", ReadWord(buf, h, oob), size, center)
    ELSE LET a == ReadWord(buf, h, oob)
             b == ReadWord(buf, h + 1, oob)
             children == Eight(LAMBDA i :
                 IF BitSet(a, 8 + i) /\ depth < MaxDecodeDepth
                   THEN <<Decode(buf, oob, b + DecodedWidths(a, i), BitSet(a, i),
                                 size \div 2, OctantCenter(center, size \div 4, i),
                                 depth + 1)>>
                   ELSE <<>>)
         IN  IF \E i \in Slots : is_some(Child(children, i))
               THEN [SculptNode_new("Interior", 0, size, center)
                        EXCEPT !.children = children]
               ELSE SculptNode_new("None", 0, size, center)

\* serialize, decode, refresh the child counts, serialize again
Reserialized(buf, oob) ==
    SculptNode_to_buffer(
        SculptNode_set_child_count(Decode(buf, oob, 0, FALSE, One, RootCenter, 0)))

\* C11: after any sequence of edits (here: of edits whose closures satisfy
\* container => filler), serializing the tree, decoding the buffer,
\* refreshing the child counts and serializing again gives the same buffer
\* word for word.
C11_ReserializedBufferIdentical ==
    consistent =>
        LET buf == Sculpt_get_voxel_buffer
        IN  \A oob \in OutOfBufferWords : Reserialized(buf, oob) = buf

\* C12: after any sequence of subdivide and unsubdivide calls no node has all
\* eight child slots present with every child of kind Leaf.
RECURSIVE C12_Below(_)
C12_Below(n) ==
    /\ ~(\A i \in Slots : Has(n, i) /\ ChildNode(n, i).kind = "Leaf")
    /\ \A i \in Present(n) : C12_Below(ChildNode(n, i))

C12_NoNodeWithEightLeafChildren == C12_Below(root)

\* A subdivide has merged the eight octants of the root: the root is a Leaf
\* although it is larger than min_leaf_size and the brush does not contain
\* it, and it was no Leaf before.
C12_Witness ==
    /\ last.op = "subdivide"
    /\ last.before.kind # "Leaf"
    /\ ~AtMinLeafSize(One, resolution)
    /\ ~is_contained(last.pred, One, RootCenter)
    /\ root.kind = "Leaf"

\* The sphere of radius 0.5 centered at (0.5, 0.5, 0.5).
CenterSphere == [tip |-> "round", size |-> 32, pos |-> RootCenter]

\* C13: after an additive edit on an empty sculpt of resolution >= 2 whose
\* brush does not contain the root cube, either the eight octants have all
\* become Leaves and merged into a Leaf root, or slot i of the root is
\* present exactly when the filler holds on the cube of octant i and the
\* root is Interior when a slot is present; so the sphere of radius 0.5 at
\* the center leaves an unmerged root Interior with all 8 slots present.
C13_RootSlotsFollowFiller ==
    (/\ last.op = "subdivide"
     /\ last.before = SculptNode_new("None", 0, One, RootCenter)
     /\ resolution >= 2
     /\ ~is_contained(last.pred, One, RootCenter))
    => LET filled(i) == is_filled(last.pred, One \div 2,
                                  OctantCenter(RootCenter, One \div 4, i))
       IN  IF root.kind = "Leaf"
             THEN Present(root) = {} /\ \A i \in Slots : filled(i)
             ELSE /\ \A i \in Slots : Has(root, i) <=> filled(i)
                  /\ Present(root) # {} => root.kind = "Interior"
                  /\ last.pred = CenterSphere =>
                        (root.kind = "Interior" /\ Present(root) = Slots)

\* The stroke of the repository's test: resolution 32, the sphere of radius
\* 0.5 at the center; the root is Interior with its 8 slots present.
C13_Witness ==
    /\ resolution = 32
    /\ last.op = "subdivide"
    /\ last.pred = CenterSphere
    /\ root.kind = "Interior"
    /\ Present(root) = Slots

\* The state after the one stroke of C14: resolution 32, the sphere of radius
\* 0.5 at the center added to the new sculpt.
C14_Stroke ==
    /\ resolution = 32
    /\ last.op = "subdivide"
    /\ last.before = SculptNode_new("None", 0, One, RootCenter)
    /\ last.pred = CenterSphere

\* C14 as stated: after that stroke each of the eight root children is a
\* Leaf and the voxel buffer is [0xFFFF, 2, 0, 0, 0, 0, 0, 0, 0, 0].
C14_EightLeavesBuffer ==
    C14_Stroke =>
        /\ \A i \in Slots : Has(root, i) /\ ChildNode(root, i).kind = "Leaf"
        /\ Sculpt_get_voxel_buffer = <<65535, 2, 0, 0, 0, 0, 0, 0, 0, 0>>

\* C14 amended: after that stroke the root is Interior with its eight slots
\* present, each root child is Interior (the sphere contains none of the
\* octants), and the voxel buffer starts with [0xFF00, 2], followed by the
\* eight two-word headers of the children and by their descendants.
C14_EightInteriorChildrenBuffer ==
    C14_Stroke =>
        LET buf == Sculpt_get_voxel_buffer
        IN  /\ root.kind = "Interior"
            /\ \A i \in Slots : Has(root, i) /\ ChildNode(root, i).kind = "Interior"
            /\ Len(buf) > 18
            /\ buf[1] = 65280
            /\ buf[2] = 2
            /\ Len(buf) = 2 + root.child_count

C14_Witness ==
    /\ C14_Stroke
    /\ root.kind = "Interior"
    /\ Sculpt_get_voxel_buffer[1] = 65280

\* C15: after any sequence of edits the root has side 1 and center
\* (0.5, 0.5, 0.5); the child in slot i of a node with side s and center c
\* has side s/2 and its center is c moved by +s/4 on x iff bit 0 of i is
\* set, on y iff bit 1 is set, on z iff bit 2 is set, and by -s/4 otherwise;
\* a node at depth d has side 2^-d.
RECURSIVE C15_Below(_, _)
C15_Below(n, depth) ==
    /\ n.size * Pow2(depth) = One
    /\ \A i \in Present(n) :
          LET child == ChildNode(n, i)
              moved(k, bit) == child.center[k] - n.center[k] =
                                  (IF BitSet(i, bit) THEN 1 ELSE -1) * (n.size \div 4)
          IN  /\ 2 * child.size = n.size
              /\ 4 * (n.size \div 4) = n.size
              /\ moved(1, 0) /\ moved(2, 1) /\ moved(3, 2)
              /\ C15_Below(child, depth + 1)

C15_NodeGeometry ==
    /\ root.size = One
    /\ root.center = <<One \div 2, One \div 2, One \div 2>>
    /\ C15_Below(root, 0)

\* After two edits the tree has a node three levels below the root, in
\* slots whose three bits differ.
C15_Witness ==
    /\ edits = 2
    /\ \E i \in Present(root) :
          \E j \in Present(ChildNode(root, i)) :
             \E k \in Present(ChildNode(ChildNode(root, i), j)) :
                /\ {i, j, k} \cap {1, 2, 4, 3, 5, 6} # {}
                /\ ChildNode(ChildNode(ChildNode(root, i), j), k).size * 8 = One

\* C16: after any sequence of edits the material buffer holds exactly six
\* values per palette material, [r, g, b, a, roughness, metallic], in
\* palette order, the default material's values first.
C16_SixValuesPerMaterial ==
    LET buf == Sculpt_get_material_buffer
    IN  /\ Len(buf) = 6 * Len(palette)
        /\ \A k \in 1..Len(palette) :
              LET m == palette[k]
              IN  SubSeq(buf, 6 * (k - 1) + 1, 6 * k) =
                     <<m.color[1], m.color[2], m.color[3], m.color[4],
                       m.roughness, m.metallic>>
        /\ Len(palette) >= 1
        /\ palette[1].index = 0
        /\ SubSeq(buf, 1, 6) = <<8, 8, 8, 10, 5, 0>>

\* After two edits that changed the tree the material buffer is that of the
\* default material.
C16_Witness ==
    /\ edits = 2
    /\ root # last.before
    /\ root.kind = "Interior"
    /\ Sculpt_get_material_buffer = <<8, 8, 8, 10, 5, 0>>

\* The nodes b of the tree before an unsubdivide with closures P that the
\* recursion reaches (the filler holds on every ancestor) compared with
\* what is in their place afterwards: a is the slot of the tree after the
\* edit at the position of b.  Where the filler is false on b's own cube,
\* the slot still holds b with its whole subtree.
RECURSIVE C17_Below(_, _, _)
C17_Below(P, b, a) ==
    IF ~is_filled(P, b.size, b.center)
      THEN a = <<b>>
      ELSE \A i \in Present(b) :
              C17_Below(P, ChildNode(b, i),
                        IF is_some(a) THEN Child(a[1].children, i) ELSE <<>>)

\* C17: unsubdivide leaves unchanged every node it reaches whose own cube
\* has filler false: kind, child slots, material and subtree are the same
\* after the edit as before (here: for edits whose closures satisfy
\* container => filler).
C17_UnsubdivideKeepsUnfilledNodes ==
    (consistent /\ last.op = "unsubdivide")
        => C17_Below(last.pred, last.before, <<root>>)

\* The nodes b of the tree before an additive edit compared with the node a
\* in their place afterwards: either a is a childless Leaf (b and all that
\* was below it is inside a solid cube), or b was no Leaf and every child of
\* b is still there and compares the same way.
RECURSIVE C18_Below(_, _)
C18_Below(b, a) ==
    IF a.kind = "Leaf"
      THEN Present(a) = {}
      ELSE /\ b.kind # "Leaf"
           /\ \A i \in Present(b) :
                 Has(a, i) /\ C18_Below(ChildNode(b, i), ChildNode(a, i))

\* C18: in an additive edit a node that is a Leaf before the edit is never
\* refined: afterwards it is the same childless Leaf or it lies inside an
\* ancestor that became a Leaf.
C18_SubdivideKeepsLeaves ==
    last.op = "subdivide" => C18_Below(last.before, root)

\* An additive edit whose brush touches but does not contain a Leaf child
\* of the root larger than min_leaf_size; the child is still a Leaf and the
\* edit has changed the tree elsewhere.
C18_Witness ==
    /\ last.op = "subdivide"
    /\ root # last.before
    /\ root.kind = "Interior"
    /\ \E i \in Present(last.before) :
          LET b == ChildNode(last.before, i)
          IN  /\ b.kind = "Leaf"
              /\ ~AtMinLeafSize(b.size, resolution)
              /\ is_filled(last.pred, b.size, b.center)
              /\ ~is_contained(last.pred, b.size, b.center)
              /\ Has(root, i)
              /\ ChildNode(root, i) = b

\* The node in slot i that the recursion of an additive edit visits under
\* node b: the child b has there, or the one subdivide allocates.
VisitedChild(b, i) ==
    IF Has(b, i) THEN ChildNode(b, i)
    ELSE SculptNode_new("None", 0, b.size \div 2,
                        OctantCenter(b.center, b.size \div 4, i))

\* The nodes b an additive edit with closures P visits, each as it is when
\* visited, compared with the slot a in its place in the tree after the edit
\* (<<>> when an ancestor has merged into a Leaf).  A visited node that is
\* no Leaf and is at the resolution limit or contained by the brush comes
\* out of subdivide as a childless Leaf, and is one in the tree afterwards.
RECURSIVE C19_Visit(_, _, _, _)
C19_Visit(P, res, b, a) ==
    IF b.kind = "Leaf" THEN TRUE
    ELSE IF b.size * res <= One \/ is_contained(P, b.size, b.center)
      THEN /\ LET r == SculptNode_subdivide(b, 0, P, res, FALSE)
              IN  r.kind = "Leaf" /\ Present(r) = {}
           /\ is_some(a) => (a[1].kind = "Leaf" /\ Present(a[1]) = {})
    ELSE LET merged == ~is_some(a) \/ a[1].kind = "Leaf"
         IN  \A i \in Slots :
                (Has(b, i) \/ is_filled(P, b.size \div 2,
                                        OctantCenter(b.center, b.size \div 4, i)))
                => /\ ~merged => Has(a[1], i)
                   /\ C19_Visit(P, res, VisitedChild(b, i),
                                IF merged THEN <<>> ELSE Child(a[1].children, i))

\* C19: in an additive edit every non-Leaf node visited whose cube has size
\* <= min_leaf_size or satisfies the container becomes a Leaf with all eight
\* child slots dropped, whatever subtree it had before.
C19_TerminatingNodeBecomesLeaf ==
    last.op = "subdivide" => C19_Visit(last.pred, resolution, last.before, <<root>>)

\* An additive edit whose brush contains an Interior child of the root:
\* afterwards the child is a childless Leaf.
C19_Witness ==
    /\ last.op = "subdivide"
    /\ last.before.kind = "Interior"
    /\ ~is_contained(last.pred, One, RootCenter)
    /\ root.kind = "Interior"
    /\ \E i \in Present(last.before) :
          /\ ChildNode(last.before, i).kind = "Interior"
          /\ is_contained(last.pred, One \div 2, ChildNode(last.before, i).center)
          /\ Has(root, i)
          /\ ChildNode(root, i).kind = "Leaf"
          /\ Present(ChildNode(root, i)) = {}

\* C20: for a sculpt of resolution R no node lies deeper than log2(R) levels
\* below the root, that is, no node at depth d has 2^d > R, and no node has
\* a side smaller than 1/R; also for R that is no power of two.
RECURSIVE C20_Below(_, _, _)
C20_Below(res, n, depth) ==
    /\ Pow2(depth) <= res
    /\ n.size * res >= One
    /\ \A i \in Present(n) : C20_Below(res, ChildNode(n, i), depth + 1)

C20_DepthAtMostLog2R == C20_Below(resolution, root, 0)

(* ------------------------ the calls of one edit ----------------------- *)
(***************************************************************************)
(* Sculpt::subdivide and Sculpt::unsubdivide as the sequence of calls they *)
(* make.  A frame of the call stack is a pending call: the method, the     *)
(* node it is called on (as the caller left it) and the invert flag.  A    *)
(* step runs the innermost pending call up to the calls it makes itself    *)
(* and replaces its frame by theirs; the walk back up only assigns fields  *)
(* and makes no call.  The bottom frame is the set_child_count with which  *)
(* both methods of Sculpt end: when it is reached the edit is complete.    *)
(***************************************************************************)
\* The largest resolution of a sculpt whose edits are followed call by call.
MaxCallRes == 3

Frame(fn, node, invert) == [fn |-> fn, node |-> node, invert |-> invert]

RECURSIVE FramesOf(_, _, _, _)
\* The calls on the present children of slot index and above, next call first.
FramesOf(fn, children, invert, index) ==
    IF index > 7 THEN <<>>
    ELSE (IF is_some(Child(children, index))
            THEN <<Frame(fn, Child(children, index)[1], invert)>>
            ELSE <<>>)
         \o FramesOf(fn, children, invert, index + 1)

\* The calls SculptNode::subdivide makes on node n.
SubdivideCalls(n, P, res, invert) ==
    IF ~invert /\ n.kind = "Leaf"
      THEN <<>>
    ELSE IF AtMinLeafSize(n.size, res) \/ (is_contained(P, n.size, n.center) = ~invert)
      THEN <<>>
    ELSE FramesOf("subdivide", Eight(LAMBDA i : CreateChild(n, 0, P, invert, i)),
                  invert, 0)

\* The calls SculptNode::unsubdivide makes on node n.
UnsubdivideCalls(n, P) ==
    IF ~is_filled(P, n.size, n.center)
      THEN <<>>
    ELSE IF AnyChild(n)
      THEN FramesOf("unsubdivide", n.children, FALSE, 0)
    ELSE <<Frame("subdivide", n, TRUE)>>

\* Sculpt::new
InitCalls ==
    /\ resolution \in 1..MaxCallRes
    /\ palette = SculptPalette_new
    /\ root = SculptNode_new("None", 0, One, RootCenter)
    /\ edits = 0
    /\ last = [op |-> "new", pred |-> NoPred, before |-> root]
    /\ consistent = TRUE
    /\ undone = FALSE
    /\ calls = <<>>
    /\ probe = NoProbe
    /\ current_brush = 0

\* An edit of the new sculpt, made in one piece before the followed one.
Prepare ==
    /\ calls = <<>>
    /\ last.op = "new"
    /\ (Subdivide \/ Unsubdivide)

\* Sculpt::subdivide or Sculpt::unsubdivide is entered.
Call ==
    \E P \in Preds, op \in {"subdivide", "unsubdivide"} :
        /\ calls = <<>>
        /\ last.op # "traced"
        /\ calls' = <<Frame(op, root, FALSE), Frame("set_child_count", root, FALSE)>>
        /\ last' = [op |-> "traced", fn |-> op, pred |-> P, before |-> root]
        /\ UNCHANGED <<root, resolution, palette, edits, consistent, undone,
                       probe, current_brush>>

\* The innermost pending call of SculptNode runs.
Step ==
    /\ calls # <<>>
    /\ Head(calls).fn # "set_child_count"
    /\ calls' = (IF Head(calls).fn = "subdivide"
                   THEN SubdivideCalls(Head(calls).node, last.pred, resolution,
                                       Head(calls).invert)
                   ELSE UnsubdivideCalls(Head(calls).node, last.pred))
                \o Tail(calls)
    /\ UNCHANGED <<root, resolution, palette, edits, last, consistent, undone,
                   probe, current_brush>>

\* The edit returns: the root is as the method leaves it.
Return ==
    /\ calls # <<>>
    /\ Head(calls).fn = "set_child_count"
    /\ calls' = <<>>
    /\ root' = (IF last.fn = "subdivide"
                  THEN Sculpt_subdivide(root, last.pred, resolution)
                  ELSE Sculpt_unsubdivide(root, last.pred, resolution))
    /\ consistent' = (consistent /\ last.pred \in ConsistentPreds)
    /\ undone' = FALSE
    /\ edits' = edits + 1
    /\ UNCHANGED <<resolution, palette, last, probe, current_brush>>

NextCalls == Prepare \/ Call \/ Step \/ Return

\* What a Return step does to the call stack, whatever tree it leaves.
Returning ==
    /\ calls # <<>>
    /\ Head(calls).fn = "set_child_count"
    /\ calls' = <<>>

\* The calls run one after another on one thread: a pending call runs, and
\* the edit returns once its last call has.
SpecCalls ==
    InitCalls /\ [][NextCalls]_vars /\ WF_vars(Step) /\ WF_calls(Returning)

\* C21: every Sculpt::subdivide and Sculpt::unsubdivide call returns, for
\* every closure pair including those without container => filler, and no
\* call is made on a node below the root whose parent has size <=
\* min_leaf_size.
C21_NoCallBelowMinLeafSize ==
    \A k \in DOMAIN calls :
        \/ calls[k].node.size = One
        \/ 2 * calls[k].node.size * resolution > One

C21_EveryEditReturns ==
    /\ [](C21_NoCallBelowMinLeafSize)
    /\ (calls # <<>>) ~> (calls = <<>>)

\* A call on a node at the resolution limit is pending in an edit whose
\* closures violate container => filler.
C21_Witness ==
    /\ Len(calls) > 2
    /\ last.pred \notin ConsistentPreds
    /\ Head(calls).node.size < One
    /\ Head(calls).node.size * resolution <= One

(* ----------------------- the brush tip closures ----------------------- *)
(***************************************************************************)
(* The closures of the two built-in tips as functions of their own: a      *)
(* brush (size, position) and a cube (size, center) are chosen and the     *)
(* filler and the container of one tip are evaluated on them.  The cubes   *)
(* are any cubes, as in the tests of brush.rs, not only octree cells; they *)
(* include the cube of side 4 around (2, 2, 2) of those tests.             *)
(***************************************************************************)
ProbeBrushSizes == {6, 16, 24, 32}
ProbeBrushCoords == {22, 32}
ProbeCubeSizes == {8, 16, 32, 64, 256}
ProbeCubeCoords == {4, 24, 32, 40, 56, 128}

ProbeBrushPositions ==
    {Vec3(x, y, 32) : x \in ProbeBrushCoords, y \in ProbeBrushCoords}
ProbeCubeCenters ==
    {Vec3(x, y, z) : x \in ProbeCubeCoords, y \in ProbeCubeCoords, z \in ProbeCubeCoords}

\* The record of one evaluation: the arguments and the two values.
Probed(tip, brush_size, brush_position, size, center) ==
    LET P == [tip |-> tip, size |-> brush_size, pos |-> brush_position]
    IN  [fn |-> tip, brush_size |-> brush_size, brush_position |-> brush_position,
         size |-> size, center |-> center,
         filled |-> is_filled(P, size, center),
         contained |-> is_contained(P, size, center)]

\* Sculpt::new; no closure evaluated yet
InitTips ==
    /\ resolution = 1
    /\ palette = SculptPalette_new
    /\ root = SculptNode_new("None", 0, One, RootCenter)
    /\ edits = 0
    /\ last = [op |-> "new", pred |-> NoPred, before |-> root]
    /\ consistent = TRUE
    /\ undone = FALSE
    /\ calls = <<>>
    /\ probe = NoProbe
    /\ current_brush = 0

\* RoundBrushTip::filler and RoundBrushTip::container on one brush and cube.
EvaluateRound ==
    /\ probe = NoProbe
    /\ \E bs \in ProbeBrushSizes, bp \in ProbeBrushPositions,
          s \in ProbeCubeSizes, c \in ProbeCubeCenters :
            probe' = Probed("round", bs, bp, s, c)
    /\ UNCHANGED <<root, resolution, palette, edits, last, consistent,
                   undone, calls, current_brush>>

\* SquareBrushTip::filler and SquareBrushTip::container on one brush and cube.
EvaluateSquare ==
    /\ probe = NoProbe
    /\ \E bs \in ProbeBrushSizes, bp \in ProbeBrushPositions,
          s \in ProbeCubeSizes, c \in ProbeCubeCenters :
            probe' = Probed("square", bs, bp, s, c)
    /\ UNCHANGED <<root, resolution, palette, edits, last, consistent,
                   undone, calls, current_brush>>

NextTips == EvaluateRound \/ EvaluateSquare

SpecTips == InitTips /\ [][NextTips]_vars

\* The ends of the cube's interval on axis k.
CubeLow(size, center, k) == center[k] - size \div 2
CubeHigh(size, center, k) == center[k] + size \div 2

\* C22: the cube tip's filler is true for a cube iff on each of the three
\* axes the brush interval [b - s, b + s] and the cube's interval share a
\* segment, including when an end of one coincides with an end of the other.
C22_SquareFillerIsIntervalOverlap ==
    probe.fn = "square" =>
        (probe.filled <=>
            \A k \in 1..3 :
                /\ probe.brush_position[k] - probe.brush_size
                       < CubeHigh(probe.size, probe.center, k)
                /\ probe.brush_position[k] + probe.brush_size
                       > CubeLow(probe.size, probe.center, k))

Max2(a, b) == IF a >= b THEN a ELSE b

\* The squared distance from the brush center to the nearest point of the
\* cube's axis-aligned box.
NearestDistSquared(brush_position, size, center) ==
    LET gap(k) == Max2(0, Max2(CubeLow(size, center, k) - brush_position[k],
                                brush_position[k] - CubeHigh(size, center, k)))
    IN  Sq(gap(1)) + Sq(gap(2)) + Sq(gap(3))

\* The cube contains the brush center.
CubeHoldsBrushCenter(brush_position, size, center) ==
    \A k \in 1..3 : /\ CubeLow(size, center, k) <= brush_position[k]
                    /\ brush_position[k] <= CubeHigh(size, center, k)

\* C23: the sphere tip's filler is true for a cube iff the squared distance
\* from the brush center to the nearest point of the cube's box is at most
\* brush_size^2, boundary contact included; so it is true for every cube
\* that contains the brush center.
C23_RoundFillerIsNearestPointTest ==
    probe.fn = "round" =>
        /\ probe.filled <=>
              (NearestDistSquared(probe.brush_position, probe.size, probe.center)
                  <= Sq(probe.brush_size))
        /\ CubeHoldsBrushCenter(probe.brush_position, probe.size, probe.center)
              => probe.filled

\* The sphere touches the cube in one point of its surface and fills it.
C23_Witness ==
    /\ probe.fn = "round"
    /\ probe.filled
    /\ NearestDistSquared(probe.brush_position, probe.size, probe.center)
          = Sq(probe.brush_size)

\* The squared distance from the brush center to the corner of the cube
\* farthest from it.
FarthestDistSquared(brush_position, size, center) ==
    LET far(k) == Max2(brush_position[k] - CubeLow(size, center, k),
                       CubeHigh(size, center, k) - brush_position[k])
    IN  Sq(far(1)) + Sq(far(2)) + Sq(far(3))

\* C24: the sphere tip's container is true for a cube iff the squared
\* distance from the brush center to the cube's farthest corner is strictly
\* less than brush_size^2; so it is false for every cube whose side exceeds
\* the sphere's diameter.
C24_RoundContainerIsFarCornerTest ==
    probe.fn = "round" =>
        /\ probe.contained <=>
              (FarthestDistSquared(probe.brush_position, probe.size, probe.center)
                  < Sq(probe.brush_size))
        /\ probe.size > 2 * probe.brush_size => ~probe.contained

\* The farthest corner of the cube lies on the sphere and the cube is not
\* contained.
C24_Witness ==
    /\ probe.fn = "round"
    /\ ~probe.contained
    /\ FarthestDistSquared(probe.brush_position, probe.size, probe.center)
          = Sq(probe.brush_size)

(* --------------------------- filled volume ---------------------------- *)

\* The child slot of node n on whose side of n's center the point lies.
SlotToward(n, center) ==
    (IF center[1] > n.center[1] THEN 1 ELSE 0)
    + (IF center[2] > n.center[2] THEN 2 ELSE 0)
    + (IF center[3] > n.center[3] THEN 4 ELSE 0)

\* The octree cell (size, center) lies inside a Leaf of the tree under n,
\* n being a node whose cube holds the cell.
RECURSIVE InLeaf(_, _, _)
InLeaf(n, size, center) ==
    IF n.kind = "Leaf" THEN TRUE
    ELSE IF size >= n.size THEN FALSE
    ELSE LET i == SlotToward(n, center)
         IN  Has(n, i) /\ InLeaf(ChildNode(n, i), size, center)

\* Every Leaf of the tree under b lies inside a Leaf of the tree a.
RECURSIVE LeavesStayFilled(_, _)
LeavesStayFilled(b, a) ==
    IF b.kind = "Leaf" THEN InLeaf(a, b.size, b.center)
    ELSE \A i \in Slots :
            Has(b, i) => LeavesStayFilled(ChildNode(b, i), a)

RECURSIVE AnyLeaf(_)
AnyLeaf(n) ==
    n.kind = "Leaf" \/ \E i \in Slots : Has(n, i) /\ AnyLeaf(ChildNode(n, i))

\* C25: Sculpt::subdivide removes no filled volume: whatever the closures,
\* every cube inside a Leaf before the edit is inside a Leaf after it.
C25_SubdivideKeepsFilledVolume ==
    last.op = "subdivide" => LeavesStayFilled(last.before, root)

\* An additive edit of a tree with Leaves that changes the tree, with
\* closures that violate container => filler.
C25_Witness ==
    /\ last.op = "subdivide"
    /\ last.pred \notin ConsistentPreds
    /\ AnyLeaf(last.before)
    /\ last.before.kind = "Interior"
    /\ root # last.before

\* Every Leaf of the tree under n has filler false on its own cube or on
\* the cube of an ancestor; excused tells that an ancestor of n has.
RECURSIVE LeavesUntouched(_, _, _)
LeavesUntouched(P, n, excused) ==
    LET here == excused \/ ~is_filled(P, n.size, n.center)
    IN  /\ n.kind = "Leaf" => here
        /\ \A i \in Slots :
              Has(n, i) => LeavesUntouched(P, ChildNode(n, i), here)

\* C26: Sculpt::unsubdivide clears everything the brush touches: whatever
\* the closures, each Leaf that remains after the edit has filler false on
\* its own cube or on the cube of one of its ancestors.
C26_UnsubdivideClearsTouchedLeaves ==
    last.op = "unsubdivide" => LeavesUntouched(last.pred, root, FALSE)

\* A subtractive edit has carved a solid root into an Interior root with
\* Leaves around the brush.
C26_Witness ==
    /\ last.op = "unsubdivide"
    /\ last.before.kind = "Leaf"
    /\ root.kind = "Interior"
    /\ AnyLeaf(root)

\* C27: Sculpt::unsubdivide adds no filled volume: for closures with
\* container => filler on every cube, every cube inside a Leaf after the
\* edit was inside a Leaf before it; on an empty sculpt the root stays None
\* without children.
C27_UnsubdivideAddsNoFilledVolume ==
    (last.op = "unsubdivide" /\ last.pred \in ConsistentPreds)
        => LeavesStayFilled(root, last.before)

\* The octree cells below the cell (size, center), itself of side above
\* min_leaf_size and in whose place the tree has node a (<<>> if none), that
\* the filler leads to: each child cell with filler true lies inside a Leaf
\* if its side is at most min_leaf_size, and leads on to its own children
\* otherwise.  Below a Leaf every cell lies inside it.
RECURSIVE FilledCellsInLeaf(_, _, _, _, _)
FilledCellsInLeaf(P, res, size, center, a) ==
    IF is_some(a) /\ a[1].kind = "Leaf" THEN TRUE
    ELSE \A i \in Slots :
        LET half_size == size \div 2
            c == OctantCenter(center, size \div 4, i)
            below == IF is_some(a) THEN Child(a[1].children, i) ELSE <<>>
        IN  is_filled(P, half_size, c) =>
               IF half_size * res <= One
                 THEN is_some(below) /\ InLeaf(below[1], half_size, c)
                 ELSE FilledCellsInLeaf(P, res, half_size, c, below)

\* C28: after Sculpt::subdivide every octree cell of side <= min_leaf_size
\* whose parent has side > min_leaf_size, with filler true on the cell and
\* on all its ancestors below the root, lies inside a Leaf.
C28_BrushFilledToResolutionLimit ==
    (last.op = "subdivide" /\ One * resolution > One)
        => FilledCellsInLeaf(last.pred, resolution, One, RootCenter, <<root>>)

\* An additive edit has left, two levels below an Interior root, a Leaf at
\* the resolution limit that the brush touches and does not contain.
C28_Witness ==
    /\ last.op = "subdivide"
    /\ root.kind = "Interior"
    /\ \E i \in Slots :
          /\ Has(root, i)
          /\ ~Has(last.before, i)
          /\ ChildNode(root, i).kind = "Interior"
          /\ \E j \in Slots :
                /\ Has(ChildNode(root, i), j)
                /\ LET g == ChildNode(ChildNode(root, i), j)
                   IN  /\ g.kind = "Leaf"
                       /\ g.size * resolution <= One
                       /\ is_filled(last.pred, g.size, g.center)
                       /\ ~is_contained(last.pred, g.size, g.center)

\* C29: both built-in tips produce consistent closures: on every brush and
\* every cube, RoundBrushTip::container true implies RoundBrushTip::filler
\* true and SquareBrushTip::container true implies SquareBrushTip::filler
\* true.
C29_TipContainerImpliesFiller ==
    probe.fn \in {"round", "square"} => (probe.contained => probe.filled)

\* The cube tip contains a cube.
C29_Witness ==
    /\ probe.fn = "square"
    /\ probe.contained
    /\ probe.filled

(* ----------------------------- the editor ----------------------------- *)
(***************************************************************************)
(* Editor (editor.rs) owns the sculpt, the list of brushes and the index   *)
(* current_brush.  Editor::default makes a sculpt of resolution 512 and    *)
(* the brushes "Round Brush" and "Square Brush", each of size 0.1          *)
(* (Brush::new).  0.1 is no multiple of 1/64: it lies between 6/64 and     *)
(* 7/64, and a closure of either tip is monotone in the brush size, so a   *)
(* stroke on which the sizes 6 and 7 agree has the same outcome with 0.1.  *)
(* The strokes of this specification are drawn off the canvas, at least    *)
(* one unit away from the unit cube, where that is so and where the edit   *)
(* ends at the root.                                                       *)
(***************************************************************************)
MaxBrushArg == 3

EditorResolution == 512

\* Editor::default: the tips of self.brushes, in order.
Editor_brushes == <<"round", "square">>

\* Brush.size (0.1) from below and from above, in 1/64ths.
Brush_sizes == {6, 7}

\* The x and y of the strokes.
EditorCoords == {-64, 128, 192}

\* Editor::default
InitEditor ==
    /\ resolution = EditorResolution
    /\ palette = SculptPalette_new
    /\ root = SculptNode_new("None", 0, One, RootCenter)
    /\ edits = 0
    /\ last = [op |-> "new", pred |-> NoPred, before |-> root]
    /\ consistent = TRUE
    /\ undone = FALSE
    /\ calls = <<>>
    /\ probe = NoProbe
    /\ current_brush = 0

\* usize::clamp(brush, 0, len)
Clamp(brush, min, max) ==
    IF brush < min THEN min ELSE IF brush > max THEN max ELSE brush

\* Editor::set_brush
Editor_set_brush(brush) == Clamp(brush, 0, Len(Editor_brushes))

\* self.brushes[self.current_brush] is inside the list; outside it the
\* indexing panics.
InBounds(index) == index + 1 \in DOMAIN Editor_brushes

SetBrush ==
    \E brush \in 0..MaxBrushArg :
        /\ last.op # "panic"
        /\ current_brush' = Editor_set_brush(brush)
        /\ last' = [op |-> "set_brush", brush |-> brush, before |-> root]
        /\ UNCHANGED <<root, resolution, palette, edits, consistent, undone,
                       calls, probe>>

\* Editor::add: Brush::add of the current brush, which is Draw::add of its
\* tip with the brush at (x, y, 0.5).
EditorAdd ==
    \E x \in EditorCoords, y \in EditorCoords, s \in Brush_sizes :
        /\ last.op # "panic"
        /\ edits < MaxEdits
        /\ IF InBounds(current_brush)
             THEN LET P == [tip |-> Editor_brushes[current_brush + 1],
                            size |-> s, pos |-> Vec3(x, y, 32)]
                  IN  /\ root' = Sculpt_subdivide(root, P, resolution)
                      /\ last' = [op |-> "add", pred |-> P, before |-> root]
             ELSE /\ root' = root
                  /\ last' = [op |-> "panic", pred |-> NoPred, before |-> root]
        /\ edits' = edits + 1
        /\ UNCHANGED <<resolution, palette, consistent, undone, calls, probe,
                       current_brush>>

\* Editor::remove: Brush::remove of the current brush.
EditorRemove ==
    \E x \in EditorCoords, y \in EditorCoords, s \in Brush_sizes :
        /\ last.op # "panic"
        /\ edits < MaxEdits
        /\ IF InBounds(current_brush)
             THEN LET P == [tip |-> Editor_brushes[current_brush + 1],
                            size |-> s, pos |-> Vec3(x, y, 32)]
                  IN  /\ root' = Sculpt_unsubdivide(root, P, resolution)
                      /\ last' = [op |-> "remove", pred |-> P, before |-> root]
             ELSE /\ root' = root
                  /\ last' = [op |-> "panic", pred |-> NoPred, before |-> root]
        /\ edits' = edits + 1
        /\ UNCHANGED <<resolution, palette, consistent, undone, calls, probe,
                       current_brush>>

NextEditor == SetBrush \/ EditorAdd \/ EditorRemove

SpecEditor == InitEditor /\ [][NextEditor]_vars

\* C30: after Editor::set_brush(b), whatever b, current_brush is an index
\* into the editor's list of two brushes (0 or 1), and no Editor::add or
\* Editor::remove that follows indexes outside the list.
C30_CurrentBrushIsValidIndex ==
    /\ current_brush \in {0, 1}
    /\ last.op # "panic"

=============================================================================
